---------------------------- MODULE Spec2Model ----------------------------
(***************************************************************************)
(* Conway's Game of Life (src/main.py): the GameOfLife object, its event   *)
(* handlers, the generation advance and the pattern generators, as a state *)
(* machine.  A Cell is the pair <<column, row>>.                           *)
(***************************************************************************)
EXTENDS Integers, Sequences, FiniteSets, TLC

VARIABLES
    _config,            \* the configuration dictionary read in __init__
    _living_cells,      \* set of living cells {<<col, row>>}
    _is_paused,         \* whether the simulation is frozen
    _run_next_step,     \* whether to run just the next step
    _current_pattern,   \* "None", "Rand" or the seed id "1".."9"
    running,            \* the main loop's flag
    pc,                 \* where the main loop stands
    err,                \* the exception that ended the program, or "none"
    last_op,            \* the operation that ran last
    arg,                \* the input of the operation that ran last
    prev_living_cells,  \* _living_cells as the last operation found it
    neighbors           \* the list _get_neighbors returned last

vars == <<_config, _living_cells, _is_paused, _run_next_step,
          _current_pattern, running, pc, err, last_op, arg,
          prev_living_cells, neighbors>>

(***************************************************************************)
(* Bounds of the model.                                                    *)
(***************************************************************************)
\* largest number of columns or rows of the grids neighbours are listed on
MaxNbrDim == 5
\* largest number of columns or rows of the grids generations advance on
MaxDim == 3
\* largest number of living cells of an initial generation
MaxLiving == 4

(***************************************************************************)
(* The grid: __init__.                                                     *)
(***************************************************************************)
_n_cols == _config.width \div _config.cell_size
_n_rows == _config.height \div _config.cell_size
_n_cells == _n_rows * _n_cols

\* The cells of the grid.
GridCells == (0 .. _n_cols - 1) \X (0 .. _n_rows - 1)

InGrid(cell) == /\ 0 <= cell[1] /\ cell[1] < _n_cols
                /\ 0 <= cell[2] /\ cell[2] < _n_rows

\* The values config.yml may hold for the rules and the random percentages;
\* the geometry is chosen by each specification.
Thresholds == {<<2, 3, 3>>, <<3, 2, 3>>, <<0, 8, 0>>, <<1, 1, 2>>,
               <<4, 8, 1>>}

MakeConfig(w, h, cs, inf, th, lo, hi) ==
    [width |-> w, height |-> h, cell_size |-> cs, grid_is_infinite |-> inf,
     underpopulation |-> th[1], overpopulation |-> th[2],
     reproduction |-> th[3],
     gen_min_pct_living_cells |-> lo, gen_max_pct_living_cells |-> hi]

(***************************************************************************)
(* _get_neighbors.                                                         *)
(***************************************************************************)
\* a plausible slip: the bottom row of a bounded grid keeps its +1 offset
delta_row_vals_nopop(row) ==
    IF row = _n_rows - 1
    THEN IF _config.grid_is_infinite THEN <<-1, 0, -_n_rows + 1>>
                                     ELSE <<-1, 0, 1>>
    ELSE IF row = 0
         THEN IF _config.grid_is_infinite THEN <<_n_rows - 1, 0, 1>>
                                          ELSE <<0, 1>>
         ELSE <<-1, 0, 1>>

delta_row_vals(row) ==
    IF row = _n_rows - 1
    THEN IF _config.grid_is_infinite THEN <<-1, 0, -_n_rows + 1>>
                                     ELSE <<-1, 0>>
    ELSE IF row = 0
         THEN IF _config.grid_is_infinite THEN <<_n_rows - 1, 0, 1>>
                                          ELSE <<0, 1>>
         ELSE <<-1, 0, 1>>

\* a plausible slip: the rightmost column wraps one column too far
delta_col_vals_offbyone(col) ==
    IF col = _n_cols - 1
    THEN IF _config.grid_is_infinite THEN <<-1, 0, -_n_cols>>
                                     ELSE <<-1, 0>>
    ELSE IF col = 0
         THEN IF _config.grid_is_infinite THEN <<_n_cols - 1, 0, 1>>
                                          ELSE <<0, 1>>
         ELSE <<-1, 0, 1>>

delta_col_vals(col) ==
    IF col = _n_cols - 1
    THEN IF _config.grid_is_infinite THEN <<-1, 0, -_n_cols + 1>>
                                     ELSE <<-1, 0>>
    ELSE IF col = 0
         THEN IF _config.grid_is_infinite THEN <<_n_cols - 1, 0, 1>>
                                          ELSE <<0, 1>>
         ELSE <<-1, 0, 1>>

\* a plausible slip: the pair of zero offsets is not skipped
_get_neighbors_withself(cell) ==
    LET col == cell[1]
        row == cell[2]
        dcs == delta_col_vals(col)
        drs == delta_row_vals(row)
    IN  [k \in 1 .. (Len(dcs) * Len(drs)) |->
            <<col + dcs[((k - 1) \div Len(drs)) + 1],
              row + drs[((k - 1) % Len(drs)) + 1]>>]

\* The list of neighbours, in the order of the nested loops (columns outside,
\* rows inside), the pair of zero offsets skipped.
_get_neighbors(cell) ==
    LET col == cell[1]
        row == cell[2]
        dcs == delta_col_vals(col)
        drs == delta_row_vals(row)
        deltas == [k \in 1 .. (Len(dcs) * Len(drs)) |->
                     <<dcs[((k - 1) \div Len(drs)) + 1],
                       drs[((k - 1) % Len(drs)) + 1]>>]
        kept == SelectSeq(deltas, LAMBDA d : ~(d[1] = 0 /\ d[2] = 0))
    IN  [k \in 1 .. Len(kept) |-> <<col + kept[k][1], row + kept[k][2]>>]

(***************************************************************************)
(* Neighbour enumeration on its own: a grid and one of its cells are       *)
(* chosen, then _get_neighbors is called on the cell.                      *)
(***************************************************************************)
InitNeighbors ==
    /\ \E w \in 1 .. MaxNbrDim, h \in 1 .. MaxNbrDim, inf \in BOOLEAN :
           _config = MakeConfig(w, h, 1, inf, <<2, 3, 3>>, 0, 100)
    /\ arg \in GridCells
    /\ _living_cells = {}
    /\ _is_paused = TRUE
    /\ _run_next_step = FALSE
    /\ _current_pattern = "None"
    /\ running = TRUE
    /\ pc = "call"
    /\ err = "none"
    /\ last_op = "__init__"
    /\ prev_living_cells = {}
    /\ neighbors = <<>>

CallGetNeighbors ==
    /\ pc = "call"
    /\ neighbors' = _get_neighbors(arg)
    /\ last_op' = "_get_neighbors"
    /\ pc' = "returned"
    /\ UNCHANGED <<_config, _living_cells, _is_paused, _run_next_step,
                   _current_pattern, running, err, arg, prev_living_cells>>

NextNeighbors == CallGetNeighbors

SpecNeighbors == InitNeighbors /\ [][NextNeighbors]_vars

\* The cells of a list, as a set.
Range(s) == {s[k] : k \in 1 .. Len(s)}

Bounded == ~_config.grid_is_infinite
Toroidal == _config.grid_is_infinite

C3_ToroidalNeighbors ==
    (last_op = "_get_neighbors" /\ Toroidal /\ _n_cols >= 3 /\ _n_rows >= 3) =>
        /\ Len(neighbors) = 8
        /\ Cardinality(Range(neighbors)) = 8
        /\ \A k \in 1 .. Len(neighbors) : InGrid(neighbors[k])

\* the bottom-right corner of a toroidal grid has been given neighbours that
\* wrap to column 0 and to row 0
C3_Witness ==
    /\ last_op = "_get_neighbors" /\ Toroidal
    /\ _n_cols >= 3 /\ _n_rows >= 3
    /\ arg = <<_n_cols - 1, _n_rows - 1>>
    /\ <<0, 0>> \in Range(neighbors)
    /\ Len(neighbors) = 8

(***************************************************************************)
(* run_logic.                                                              *)
(***************************************************************************)
\* a plausible slip: the survival range taken without its lower end
survives_strict(n) ==
    _config.underpopulation < n /\ n <= _config.overpopulation

\* Whether a living cell with n living neighbours lives on.
survives(n) ==
    _config.underpopulation <= n /\ n <= _config.overpopulation

\* a plausible slip: the reproduction test taken as an upper limit
reproduces_atmost(n) == n <= _config.reproduction

\* Whether a neighbour of a living cell, itself with n living neighbours, is
\* put into the next generation.
reproduces(n) == n = _config.reproduction

\* The neighbours of the list that are living, as the filter leaves them:
\* a cell listed twice is kept twice.
cell_living_neighbors(cell_neighbors) ==
    SelectSeq(cell_neighbors, LAMBDA cell_ : cell_ \in _living_cells)

\* The first loop, over the living cells not yet visited: the neighbours
\* seen so far and the survivors so far.
RECURSIVE survival_loop(_, _, _)
survival_loop(todo, all_neighbors, new_living_cells) ==
    IF todo = {}
    THEN [all_neighbors |-> all_neighbors,
          new_living_cells |-> new_living_cells]
    ELSE LET cell == CHOOSE c \in todo : TRUE
             cell_neighbors == _get_neighbors(cell)
         IN  survival_loop(
                 todo \ {cell},
                 all_neighbors \cup Range(cell_neighbors),
                 IF survives(Len(cell_living_neighbors(cell_neighbors)))
                 THEN new_living_cells \cup {cell}
                 ELSE new_living_cells)

\* The second loop, over the neighbours not yet visited.
RECURSIVE reproduction_loop(_, _)
reproduction_loop(todo, new_living_cells) ==
    IF todo = {}
    THEN new_living_cells
    ELSE LET cell == CHOOSE c \in todo : TRUE
             cell_neighbors == _get_neighbors(cell)
         IN  reproduction_loop(
                 todo \ {cell},
                 IF reproduces(Len(cell_living_neighbors(cell_neighbors)))
                 THEN new_living_cells \cup {cell}
                 ELSE new_living_cells)

\* a plausible slip: the second loop run over the whole grid
new_living_cells_wholegrid ==
    LET first == survival_loop(_living_cells, {}, {})
    IN  reproduction_loop(GridCells, first.new_living_cells)

\* The next generation run_logic computes from _living_cells.
new_living_cells ==
    LET first == survival_loop(_living_cells, {}, {})
    IN  reproduction_loop(first.all_neighbors, first.new_living_cells)

\* a plausible slip: the step request is not cleared after the advance
run_logic_keepstep ==
    /\ prev_living_cells' = _living_cells
    /\ IF _is_paused /\ ~_run_next_step
       THEN /\ last_op' = "wait"
            /\ UNCHANGED <<_living_cells, _run_next_step>>
       ELSE /\ last_op' = "advance"
            /\ _living_cells' = new_living_cells
            /\ UNCHANGED _run_next_step
    /\ UNCHANGED <<_config, _is_paused, _current_pattern>>

\* a plausible slip: the early return tests the step request alone, so the
\* running simulation stands still
run_logic_steponly ==
    /\ prev_living_cells' = _living_cells
    /\ IF ~_run_next_step
       THEN /\ last_op' = "wait"
            /\ UNCHANGED <<_living_cells, _run_next_step>>
       ELSE /\ last_op' = "advance"
            /\ _living_cells' = new_living_cells
            /\ _run_next_step' = FALSE
    /\ UNCHANGED <<_config, _is_paused, _current_pattern>>

\* The method: it returns at once while paused with no step requested, and
\* otherwise replaces the generation and clears the step request.
run_logic ==
    /\ prev_living_cells' = _living_cells
    /\ IF _is_paused /\ ~_run_next_step
       THEN /\ last_op' = "wait"
            /\ UNCHANGED <<_living_cells, _run_next_step>>
       ELSE /\ last_op' = "advance"
            /\ _living_cells' = new_living_cells
            /\ _run_next_step' = FALSE
    /\ UNCHANGED <<_config, _is_paused, _current_pattern>>

(***************************************************************************)
(* The advance on its own: a grid, the rules and a generation of in-range  *)
(* cells are chosen, the simulation runs, and run_logic is called again    *)
(* and again.                                                              *)
(***************************************************************************)
Generations(cells) == {g \in SUBSET cells : Cardinality(g) <= MaxLiving}

InitAdvance ==
    /\ \E w \in 1 .. MaxDim, h \in 1 .. MaxDim, inf \in BOOLEAN,
          th \in Thresholds :
           _config = MakeConfig(w, h, 1, inf, th, 0, 100)
    /\ _living_cells \in Generations(GridCells)
    /\ _is_paused = FALSE
    /\ _run_next_step = FALSE
    /\ _current_pattern = "None"
    /\ running = TRUE
    /\ pc = "run_logic"
    /\ err = "none"
    /\ last_op = "__init__"
    /\ arg = <<>>
    /\ prev_living_cells = {}
    /\ neighbors = <<>>

\* On a grid one cell wide an advance can bring cells outside the grid to
\* life, and from there the generation spreads without end: only generations
\* of in-range cells are advanced.
Advance ==
    /\ pc = "run_logic"
    /\ _living_cells \subseteq GridCells
    /\ run_logic
    /\ UNCHANGED <<running, pc, err, arg, neighbors>>

NextAdvance == Advance

SpecAdvance == InitAdvance /\ [][NextAdvance]_vars

\* How many entries of cell's neighbour list are in the generation gen.
LivingNeighborCount(cell, gen) ==
    LET nb == _get_neighbors(cell)
    IN  Cardinality({k \in 1 .. Len(nb) : nb[k] \in gen})

\* The cells that are a neighbour of at least one cell of gen.
NeighborsOf(gen) == UNION {Range(_get_neighbors(c)) : c \in gen}

StandardRules ==
    /\ _config.underpopulation = 2
    /\ _config.overpopulation = 3
    /\ _config.reproduction = 3

C5_InvertedSustainsNothing ==
    (last_op = "advance"
        /\ _config.underpopulation > _config.overpopulation) =>
        prev_living_cells \cap _living_cells = {}

\* The 2x2 block whose top-left cell is <<c, r>>.
Block(c, r) == {<<c, r>>, <<c + 1, r>>, <<c, r + 1>>, <<c + 1, r + 1>>}

BlockAdvanced ==
    /\ last_op = "advance"
    /\ StandardRules
    /\ \E c \in 0 .. _n_cols - 2, r \in 0 .. _n_rows - 2 :
           prev_living_cells = Block(c, r)

\* C9 as stated: on every grid under either edge policy, an advance of an
\* in-range 2x2 block under the standard rules returns the block.
C9_AsStated == BlockAdvanced => _living_cells = prev_living_cells

\* C9 amended: on every bounded grid, and on every toroidal grid with at
\* least three columns and three rows, an advance of an in-range 2x2 block
\* under the standard rules returns the block, so every further advance
\* does too.
C9_BlockIsStillLife ==
    (BlockAdvanced /\ (Bounded \/ (_n_cols >= 3 /\ _n_rows >= 3))) =>
        _living_cells = prev_living_cells

\* a block in the corner of a toroidal grid, its neighbours wrapping round
\* both edges, was advanced and came back unchanged
C9_Witness ==
    /\ BlockAdvanced /\ Toroidal
    /\ _n_cols >= 3 /\ _n_rows >= 3
    /\ prev_living_cells = Block(0, 0)
    /\ _living_cells = Block(0, 0)

\* C10: an advance of the empty generation yields the empty generation,
\* whatever the rules (reproduction = 0 included) and the edge policy, so
\* an empty generation stays empty from advance to advance.
C10_EmptyStaysEmpty ==
    (last_op = "advance" /\ prev_living_cells = {}) => _living_cells = {}

\* the empty generation was advanced under a rule that asks for no living
\* neighbour at all for a birth
C10_Witness ==
    /\ last_op = "advance"
    /\ prev_living_cells = {}
    /\ _config.reproduction = 0
    /\ _living_cells = {}

(***************************************************************************)
(* _generate_seed_pattern and the digit keys of process_events.            *)
(***************************************************************************)
\* largest number of rows or columns of the arbitrary binary seed matrices
MaxPatDim == 2
\* largest number of rows or columns of the all-ones seed matrices
MaxFullDim == 3
\* largest number of columns or rows of the grids patterns are centred on
MaxSeedGrid == 10

\* np.where on a binary matrix: the <<row, col>> places that hold a one,
\* counted from 0 as the array indexes them.
where(binary_pattern) ==
    {<<row, col>> \in (0 .. Len(binary_pattern) - 1)
                        \X (0 .. Len(binary_pattern[1]) - 1) :
        binary_pattern[row + 1][col + 1] = 1}

\* a plausible slip: the two offsets computed from the wrong dimensions
_generate_seed_pattern_swapped(binary_pattern) ==
    LET top_left_col == (_n_rows - Len(binary_pattern[1])) \div 2
        top_left_row == (_n_cols - Len(binary_pattern)) \div 2
    IN  {<<rc[2] + top_left_col, rc[1] + top_left_row>> :
            rc \in where(binary_pattern)}

\* The cells of the pattern, its matrix centred on the grid.  The floor
\* division is Python's: it rounds towards minus infinity, as \div does.
_generate_seed_pattern(binary_pattern) ==
    LET top_left_col == (_n_cols - Len(binary_pattern[1])) \div 2
        top_left_row == (_n_rows - Len(binary_pattern)) \div 2
    IN  {<<rc[2] + top_left_col, rc[1] + top_left_row>> :
            rc \in where(binary_pattern)}

\* The branch of process_events for the digit key id_, with the matrix
\* seed_patterns.yml holds for it.  No check of the matrix against the grid
\* is made and no exception is raised.
on_key_digit(id_, binary_pattern) ==
    /\ 1 <= id_ /\ id_ <= 9
    /\ _living_cells' = _generate_seed_pattern(binary_pattern)
    /\ _is_paused' = TRUE
    /\ _current_pattern' = ToString(id_)
    /\ last_op' = "seed"
    /\ arg' = binary_pattern
    /\ prev_living_cells' = _living_cells
    /\ UNCHANGED <<_config, _run_next_step, err>>

\* The binary matrices of at most n rows and n columns.
Matrices(n) ==
    UNION {[1 .. h -> [1 .. w -> {0, 1}]] : h \in 1 .. n, w \in 1 .. n}

\* The all-ones matrices of at most n rows and n columns.
FullMatrices(n) ==
    UNION {{[r \in 1 .. h |-> [c \in 1 .. w |-> 1]]} :
              h \in 1 .. n, w \in 1 .. n}

(***************************************************************************)
(* The centred pattern on its own: a grid and a matrix are chosen, then    *)
(* the key of pattern 1 is pressed with that matrix in the file.           *)
(***************************************************************************)
InitSeed ==
    /\ \E w \in 1 .. MaxSeedGrid, h \in 1 .. MaxSeedGrid :
           _config = MakeConfig(w, h, 1, FALSE, <<2, 3, 3>>, 0, 100)
    /\ arg \in Matrices(MaxPatDim) \cup FullMatrices(MaxFullDim)
    /\ _living_cells = {}
    /\ _is_paused = TRUE
    /\ _run_next_step = FALSE
    /\ _current_pattern = "None"
    /\ running = TRUE
    /\ pc = "call"
    /\ err = "none"
    /\ last_op = "__init__"
    /\ prev_living_cells = {}
    /\ neighbors = <<>>

CallSeed ==
    /\ pc = "call"
    /\ on_key_digit(1, arg)
    /\ pc' = "returned"
    /\ UNCHANGED <<running, neighbors>>

NextSeed == CallSeed

SpecSeed == InitSeed /\ [][NextSeed]_vars

\* The matrix of the last seeding is wider or taller than the grid.
Oversized == Len(arg[1]) > _n_cols \/ Len(arg) > _n_rows

\* C7 as stated: seeding from a matrix wider or taller than the grid fails
\* with an invalid-pattern error and produces no cells.
C7_OversizedIsRejected ==
    (last_op = "seed" /\ Oversized) =>
        /\ err = "InvalidPatternError"
        /\ _living_cells = prev_living_cells

\* C8: from a binary matrix of height h <= rows and width w <= columns the
\* seeding yields exactly the cells (c + floor((columns - w) / 2),
\* r + floor((rows - h) / 2)) with matrix[r][c] = 1, each of them in the
\* grid; the 3x3 all-ones matrix on the 10x10 grid yields the nine cells
\* with column and row in 3..5.
C8_CentredPattern ==
    (last_op = "seed" /\ ~Oversized) =>
        LET h == Len(arg)
            w == Len(arg[1])
        IN  /\ _living_cells =
                  {<<c + ((_n_cols - w) \div 2), r + ((_n_rows - h) \div 2)>> :
                      <<r, c>> \in {rc \in (0 .. h - 1) \X (0 .. w - 1) :
                                       arg[rc[1] + 1][rc[2] + 1] = 1}}
            /\ \A cell \in _living_cells : InGrid(cell)
            /\ (_n_cols = 10 /\ _n_rows = 10 /\ h = 3 /\ w = 3
                   /\ \A r \in 1 .. 3, c \in 1 .. 3 : arg[r][c] = 1)
                  => _living_cells = (3 .. 5) \X (3 .. 5)

\* the 3x3 all-ones matrix has been centred on the 10x10 grid
C8_Witness ==
    /\ last_op = "seed"
    /\ _n_cols = 10 /\ _n_rows = 10
    /\ arg = [r \in 1 .. 3 |-> [c \in 1 .. 3 |-> 1]]
    /\ Cardinality(_living_cells) = 9

(***************************************************************************)
(* _generate_random_init_grid and the 'g' key of process_events.           *)
(***************************************************************************)
\* largest number of columns or rows of the grids random patterns fill
MaxRandDim == 2

\* The pairs (gen_min_pct_living_cells, gen_max_pct_living_cells) config.yml
\* may hold.
PctBounds == {<<0, 0>>, <<50, 50>>, <<100, 100>>, <<0, 100>>, <<40, 60>>}

\* random.randrange(start, stop): the values it may return; none when the
\* range is empty, and then it raises ValueError.
randrange(start, stop) == start .. stop - 1

\* a plausible slip: the draws taken with both ends included, as randint does
RECURSIVE drawn_cells_inclusive(_)
drawn_cells_inclusive(n_cells_to_gen) ==
    IF n_cells_to_gen <= 0
    THEN {{}}
    ELSE {drawn \cup {<<col, row>>} :
             drawn \in drawn_cells_inclusive(n_cells_to_gen - 1),
             col \in 0 .. _n_cols,
             row \in 0 .. _n_rows}

\* The sets the drawing loop may leave after n_cells_to_gen iterations, each
\* adding one cell drawn from the grid (a cell drawn twice is added once).
RECURSIVE drawn_cells(_)
drawn_cells(n_cells_to_gen) ==
    IF n_cells_to_gen <= 0
    THEN {{}}
    ELSE {drawn \cup {<<col, row>>} :
             drawn \in drawn_cells(n_cells_to_gen - 1),
             col \in randrange(0, _n_cols),
             row \in randrange(0, _n_rows)}

\* The branch of process_events for the 'g' key.  _generate_random_init_grid
\* sets _current_pattern first, then draws the percentage: randrange raises
\* ValueError on an empty range, before anything else is assigned, and
\* nothing catches it.
on_key_g ==
    /\ _current_pattern' = "Rand"
    /\ last_op' = "random"
    /\ prev_living_cells' = _living_cells
    /\ \/ /\ randrange(_config.gen_min_pct_living_cells,
                       _config.gen_max_pct_living_cells) = {}
          /\ err' = "ValueError"
          /\ arg' = <<>>
          /\ UNCHANGED <<_living_cells, _is_paused>>
       \/ \E pct_living_cells \in
                randrange(_config.gen_min_pct_living_cells,
                          _config.gen_max_pct_living_cells) :
            /\ _living_cells' \in
                   drawn_cells((_n_cells * pct_living_cells) \div 100)
            /\ _is_paused' = TRUE
            /\ arg' = pct_living_cells
            /\ UNCHANGED err
    /\ UNCHANGED <<_config, _run_next_step>>

(***************************************************************************)
(* The random pattern on its own: a grid and the percentage bounds are     *)
(* chosen, then the 'g' key is pressed.                                    *)
(***************************************************************************)
InitRandom ==
    /\ \E w \in 1 .. MaxRandDim, h \in 1 .. MaxRandDim, pb \in PctBounds :
           _config = MakeConfig(w, h, 1, FALSE, <<2, 3, 3>>, pb[1], pb[2])
    /\ arg = <<>>
    /\ _living_cells = {}
    /\ _is_paused = TRUE
    /\ _run_next_step = FALSE
    /\ _current_pattern = "None"
    /\ running = TRUE
    /\ pc = "call"
    /\ err = "none"
    /\ last_op = "__init__"
    /\ prev_living_cells = {}
    /\ neighbors = <<>>

CallRandom ==
    /\ pc = "call"
    /\ on_key_g
    /\ pc' = IF err' = "none" THEN "returned" ELSE "crashed"
    /\ UNCHANGED <<running, neighbors>>

NextRandom == CallRandom

SpecRandom == InitRandom /\ [][NextRandom]_vars

\* C6 as stated: the random pattern never fails when the two percentage
\* bounds are equal, and with both bounds 0 it returns the empty set.
C6_RandomIsTotal ==
    (last_op = "random"
        /\ _config.gen_min_pct_living_cells
              = _config.gen_max_pct_living_cells) =>
        /\ err = "none"
        /\ _config.gen_min_pct_living_cells = 0 => _living_cells = {}

(***************************************************************************)
(* process_events: the mouse and the remaining keys.                       *)
(***************************************************************************)
\* a plausible slip: the clicked cell is brought to life, never killed
on_mouse_button_down_addonly(x, y) ==
    LET col == x \div _config.cell_size
        row == y \div _config.cell_size
        cell == <<col, row>>
    IN  /\ _living_cells' = _living_cells \cup {cell}
        /\ last_op' = "click"
        /\ arg' = cell
        /\ prev_living_cells' = _living_cells
        /\ UNCHANGED <<_config, _is_paused, _run_next_step,
                       _current_pattern, err>>

\* A mouse button pressed with the pointer at pixel (x, y) of the window.
on_mouse_button_down(x, y) ==
    LET col == x \div _config.cell_size
        row == y \div _config.cell_size
        cell == <<col, row>>
    IN  /\ _living_cells' = IF cell \in _living_cells
                            THEN _living_cells \ {cell}
                            ELSE _living_cells \cup {cell}
        /\ last_op' = "click"
        /\ arg' = cell
        /\ prev_living_cells' = _living_cells
        /\ UNCHANGED <<_config, _is_paused, _run_next_step,
                       _current_pattern, err>>

on_key_space ==
    /\ _is_paused' = ~_is_paused
    /\ last_op' = "space"
    /\ arg' = <<>>
    /\ prev_living_cells' = _living_cells
    /\ UNCHANGED <<_config, _living_cells, _run_next_step,
                   _current_pattern, err>>

\* a plausible slip: the right arrow asks for a step while running too
on_key_right_always ==
    /\ _run_next_step' = TRUE
    /\ last_op' = "right"
    /\ arg' = <<>>
    /\ prev_living_cells' = _living_cells
    /\ UNCHANGED <<_config, _living_cells, _is_paused,
                   _current_pattern, err>>

\* The right arrow asks for one step while paused; while running the elif
\* chain goes on and no later branch is for this key.
on_key_right ==
    /\ _run_next_step' = IF _is_paused THEN TRUE ELSE _run_next_step
    /\ last_op' = "right"
    /\ arg' = <<>>
    /\ prev_living_cells' = _living_cells
    /\ UNCHANGED <<_config, _living_cells, _is_paused,
                   _current_pattern, err>>

on_key_c ==
    /\ _living_cells' = {}
    /\ _is_paused' = TRUE
    /\ last_op' = "clear"
    /\ arg' = <<>>
    /\ prev_living_cells' = _living_cells
    /\ UNCHANGED <<_config, _run_next_step, _current_pattern, err>>

\* The '0' key: the elif chain has branches for K_1 to K_9 and none for
\* K_0, so nothing is assigned.
on_key_0 ==
    /\ last_op' = "zero"
    /\ arg' = <<>>
    /\ prev_living_cells' = _living_cells
    /\ UNCHANGED <<_config, _living_cells, _is_paused, _run_next_step,
                   _current_pattern, err>>

\* Any other key no branch is for.
on_key_other ==
    /\ last_op' = "other"
    /\ arg' = <<>>
    /\ prev_living_cells' = _living_cells
    /\ UNCHANGED <<_config, _living_cells, _is_paused, _run_next_step,
                   _current_pattern, err>>

(***************************************************************************)
(* The program: __init__, then the main loop, which hands the pending      *)
(* events to process_events one by one, then calls run_logic (draw and     *)
(* clock.tick change nothing of the simulation).                           *)
(***************************************************************************)
\* largest width of the window, in pixels
MaxWidth == 3
\* largest height of the window, in pixels
MaxHeight == 2
\* largest side of a cell, in pixels
MaxCellSize == 2

\* The matrices seed_patterns.yml holds for the ids 1 to 9.
seed_patterns ==
    << <<<<1>>>>,
       <<<<1, 1>>>>,
       <<<<1>>, <<1>>>>,
       <<<<1, 1>>, <<1, 1>>>>,
       <<<<1, 1, 1>>>>,
       <<<<1, 0>>, <<0, 1>>>>,
       <<<<0, 1>>, <<1, 1>>>>,
       <<<<1, 0, 1>>>>,
       <<<<1, 1, 1>>, <<1, 1, 1>>>> >>

\* The percentage bounds the program is run with.
ProgramPctBounds == {<<50, 50>>, <<50, 51>>}

Init ==
    /\ \E cs \in 1 .. MaxCellSize :
         \E w \in cs .. MaxWidth, h \in cs .. MaxHeight, inf \in BOOLEAN,
            pb \in ProgramPctBounds :
           _config = MakeConfig(w, h, cs, inf, <<2, 3, 3>>, pb[1], pb[2])
    /\ _living_cells = {}
    /\ _is_paused = TRUE
    /\ _run_next_step = FALSE
    /\ _current_pattern = "None"
    /\ running = TRUE
    /\ pc = "process_events"
    /\ err = "none"
    /\ last_op = "__init__"
    /\ arg = <<>>
    /\ prev_living_cells = {}
    /\ neighbors = <<>>

\* pygame.QUIT: process_events returns False at once.
Quit ==
    /\ pc = "process_events"
    /\ running' = FALSE
    /\ pc' = "run_logic"
    /\ last_op' = "quit"
    /\ arg' = <<>>
    /\ prev_living_cells' = _living_cells
    /\ UNCHANGED <<_config, _living_cells, _is_paused, _run_next_step,
                   _current_pattern, err, neighbors>>

MouseButtonDown ==
    /\ pc = "process_events"
    /\ \E x \in 0 .. _config.width - 1, y \in 0 .. _config.height - 1 :
           on_mouse_button_down(x, y)
    /\ UNCHANGED <<running, pc, neighbors>>

KeySpace ==
    /\ pc = "process_events"
    /\ on_key_space
    /\ UNCHANGED <<running, pc, neighbors>>

KeyRight ==
    /\ pc = "process_events"
    /\ on_key_right
    /\ UNCHANGED <<running, pc, neighbors>>

KeyC ==
    /\ pc = "process_events"
    /\ on_key_c
    /\ UNCHANGED <<running, pc, neighbors>>

\* A ValueError out of _generate_random_init_grid is caught nowhere: the
\* program ends.
KeyG ==
    /\ pc = "process_events"
    /\ on_key_g
    /\ pc' = IF err' = "none" THEN pc ELSE "crashed"
    /\ UNCHANGED <<running, neighbors>>

KeyDigit ==
    /\ pc = "process_events"
    /\ \E id_ \in 1 .. 9 : on_key_digit(id_, seed_patterns[id_])
    /\ UNCHANGED <<running, pc, neighbors>>

Key0 ==
    /\ pc = "process_events"
    /\ on_key_0
    /\ UNCHANGED <<running, pc, neighbors>>

KeyOther ==
    /\ pc = "process_events"
    /\ on_key_other
    /\ UNCHANGED <<running, pc, neighbors>>

\* No event is left: process_events returns True.
EventsDone ==
    /\ pc = "process_events"
    /\ running' = TRUE
    /\ pc' = "run_logic"
    /\ UNCHANGED <<_config, _living_cells, _is_paused, _run_next_step,
                   _current_pattern, err, last_op, arg, prev_living_cells,
                   neighbors>>

\* run_logic, then the loop's test of running.  Cells outside the grid
\* spread over the unbounded plane around it: a generation holding one is
\* not advanced.
RunLogic ==
    /\ pc = "run_logic"
    /\ (_is_paused /\ ~_run_next_step) \/ _living_cells \subseteq GridCells
    /\ run_logic
    /\ pc' = IF running THEN "process_events" ELSE "done"
    /\ UNCHANGED <<running, err, arg, neighbors>>

Next ==
    \/ Quit
    \/ MouseButtonDown
    \/ KeySpace
    \/ KeyRight
    \/ KeyC
    \/ KeyG
    \/ KeyDigit
    \/ Key0
    \/ KeyOther
    \/ EventsDone
    \/ RunLogic

Spec == Init /\ [][Next]_vars

\* C1 as stated: on a bounded grid every living cell is inside the grid, in
\* every state the program reaches.
C1_LivingCellsInRange ==
    Bounded => \A cell \in _living_cells : InGrid(cell)

(***************************************************************************)
(* Further properties of the advance and of the random pattern.            *)
(***************************************************************************)
\* C11: under the standard rules an advance of a generation of one single
\* in-range living cell yields the empty generation, on every grid, under
\* either edge policy, wherever the cell is.
C11_LoneCellDies ==
    (last_op = "advance" /\ StandardRules
        /\ \E cell \in GridCells : prev_living_cells = {cell}) =>
        _living_cells = {}

\* a lone cell in the corner of a toroidal grid two cells wide, where the
\* wrapped neighbour lists name cells twice, was advanced and died
C11_Witness ==
    /\ last_op = "advance" /\ StandardRules /\ Toroidal
    /\ _n_cols = 2
    /\ prev_living_cells = {<<0, 0>>}
    /\ _living_cells = {}

\* C12: for a percentage pct drawn from [gen_min_pct_living_cells,
\* gen_max_pct_living_cells) the random pattern is a set of at most
\* floor(_n_cells * pct / 100) cells, each of them in the grid, whatever
\* cells are drawn.
C12_RandomPatternSize ==
    (last_op = "random" /\ err = "none") =>
        /\ arg \in _config.gen_min_pct_living_cells
                     .. _config.gen_max_pct_living_cells - 1
        /\ Cardinality(_living_cells) <= (_n_cells * arg) \div 100
        /\ \A cell \in _living_cells : InGrid(cell)

\* a cell was drawn more than once: the pattern holds fewer cells than were
\* drawn
C12_Witness ==
    /\ last_op = "random" /\ err = "none"
    /\ _living_cells # {}
    /\ Cardinality(_living_cells) < (_n_cells * arg) \div 100

\* C15 as stated: whatever the rules, a living cell with fewer than
\* underpopulation or more than overpopulation living neighbours is not in
\* the generation the advance produces.
C15_OutOfRangeCountDies ==
    last_op = "advance" =>
        \A cell \in prev_living_cells :
            (\/ LivingNeighborCount(cell, prev_living_cells)
                   < _config.underpopulation
             \/ LivingNeighborCount(cell, prev_living_cells)
                   > _config.overpopulation)
                => cell \notin _living_cells

(***************************************************************************)
(* Properties of the main loop.                                            *)
(***************************************************************************)
\* One advance of the generation gen: its survivors and the births among
\* the neighbours of its cells.
AdvanceOf(gen) ==
    {c \in gen :
        /\ _config.underpopulation <= LivingNeighborCount(c, gen)
        /\ LivingNeighborCount(c, gen) <= _config.overpopulation}
    \cup {c \in NeighborsOf(gen) :
             LivingNeighborCount(c, gen) = _config.reproduction}

\* The cells of a matrix centred on the grid.
Centred(matrix) ==
    {<<c + ((_n_cols - Len(matrix[1])) \div 2),
       r + ((_n_rows - Len(matrix)) \div 2)>> :
        <<r, c>> \in {rc \in (0 .. Len(matrix) - 1)
                               \X (0 .. Len(matrix[1]) - 1) :
                         matrix[rc[1] + 1][rc[2] + 1] = 1}}

\* C13: a right arrow pressed while paused requests a step and changes
\* nothing else; the next run_logic call made while still paused advances
\* the generation by exactly one step, leaves the simulation paused and the
\* request cleared; a run_logic call made while paused with no request
\* leaves the generation as it is; and a right arrow pressed while running
\* requests nothing.
C13_SingleStep ==
    [][/\ (pc = "process_events" /\ pc' = "process_events"
              /\ last_op' = "right" /\ _is_paused) =>
              /\ _run_next_step'
              /\ UNCHANGED <<_living_cells, _is_paused>>
       /\ (pc = "process_events" /\ pc' = "process_events"
              /\ last_op' = "right" /\ ~_is_paused) =>
              UNCHANGED <<_run_next_step, _living_cells, _is_paused>>
       /\ (pc = "run_logic" /\ _is_paused /\ _run_next_step) =>
              /\ _living_cells' = AdvanceOf(_living_cells)
              /\ _is_paused'
              /\ ~_run_next_step'
       /\ (pc = "run_logic" /\ _is_paused /\ ~_run_next_step) =>
              _living_cells' = _living_cells]_vars

\* a step was run while paused and changed the generation
C13_Witness ==
    /\ last_op = "advance"
    /\ _is_paused /\ ~_run_next_step
    /\ _living_cells # prev_living_cells
    /\ _living_cells # {}

\* C14 as stated: each digit key from '0' to '9' replaces the generation
\* with the pattern of that digit, centred on the grid, and records the
\* digit as the current pattern.
C14_DigitKeysSeed ==
    /\ last_op = "zero" => _current_pattern = "0"
    /\ last_op = "seed" =>
           \E id_ \in 1 .. 9 :
               /\ _current_pattern = ToString(id_)
               /\ arg = seed_patterns[id_]
               /\ _living_cells = Centred(seed_patterns[id_])

\* C16: a run_logic call made while paused with no step requested leaves
\* _living_cells, _is_paused, _run_next_step and _current_pattern as they
\* are; a run_logic call made while running performs exactly one advance.
C16_RunLogicFrame ==
    [][/\ (pc = "run_logic" /\ _is_paused /\ ~_run_next_step) =>
              UNCHANGED <<_living_cells, _is_paused, _run_next_step,
                          _current_pattern>>
       /\ (pc = "run_logic" /\ ~_is_paused) =>
              /\ _living_cells' = AdvanceOf(_living_cells)
              /\ last_op' = "advance"]_vars

\* run_logic was called while paused with no step requested, on a pattern
\* that was seeded and then edited or stepped
C16_Witness ==
    /\ last_op = "wait"
    /\ _is_paused /\ ~_run_next_step
    /\ _current_pattern = "5"
    /\ _living_cells # {}
    /\ _living_cells # Centred(seed_patterns[5])

\* C17: a mouse click toggles the clicked cell (the cell of the pixel under
\* the pointer) and no other, leaves _is_paused, _run_next_step and
\* _current_pattern as they are, and a second click on the same cell right
\* after the first restores the generation that preceded the two.
C17_ClickToggles ==
    [][(last_op' = "click" /\ pc = "process_events"
           /\ pc' = "process_events") =>
          /\ \E x \in 0 .. _config.width - 1, y \in 0 .. _config.height - 1 :
                 arg' = <<x \div _config.cell_size, y \div _config.cell_size>>
          /\ arg' \in _living_cells => _living_cells' = _living_cells \ {arg'}
          /\ arg' \notin _living_cells =>
                 _living_cells' = _living_cells \cup {arg'}
          /\ UNCHANGED <<_is_paused, _run_next_step, _current_pattern>>
          /\ (last_op = "click" /\ arg = arg') =>
                 _living_cells' = prev_living_cells]_vars

\* a click has killed a living cell and left other living cells alone
C17_Witness ==
    /\ last_op = "click"
    /\ arg \in prev_living_cells
    /\ _living_cells = prev_living_cells \ {arg}
    /\ _living_cells # {}

\* C18: after every run_logic call _run_next_step is false, whatever events
\* came before it and however they were batched.
C18_StepRequestConsumed ==
    last_op \in {"wait", "advance"} => ~_run_next_step

\* the block pattern was advanced while the simulation was paused: a step
\* request made before or after the pattern key was consumed
C18_Witness ==
    /\ last_op = "advance"
    /\ _is_paused /\ ~_run_next_step
    /\ _current_pattern = "4"
    /\ prev_living_cells = Centred(seed_patterns[4])
    /\ Cardinality(prev_living_cells) = 4

=============================================================================
